---- MODULE Spec2Model ----
(***************************************************************************)
(* Model of the MCP tool server: the tool registry (ToolHandler), the      *)
(* document search tool (MongoDBSearchTool) over the store client          *)
(* (MongoDBClient) and the POST /execute endpoint of the protocol server.  *)
(*                                                                         *)
(* Python values are modelled as follows.  A dict is a function whose      *)
(* DOMAIN is its key set.  Optional values are sequences of length 0       *)
(* (None) or 1 (the value).  A formatted message is the tuple of its       *)
(* pieces.  A raw JSON input value carries its JSON type in "kind".        *)
(* pydantic models follow the implicit-Optional semantics the sources rely *)
(* on (error: str = None is passed None explicitly by the server).         *)
(***************************************************************************)
EXTENDS Integers, Sequences, FiniteSets, TLC

\* tools:      ToolHandler.tools, the registry (insertion-ordered dict)
\* collection: the documents of the store collection
\* calls:      the /execute calls, each with its position and locals
\* loop:       the call the event loop is running (0 when it is free)
\* client:     the MCPClient, its operation in progress and what it returns
VARIABLES tools, collection, calls, loop, client

vars == <<tools, collection, calls, loop, client>>

(***************************** bounds **************************************)
\* largest small collection explored (besides the 25-record sample store)
MaxDocs == 3

(************************ program constants ********************************)
MIN_LIMIT == 1
MAX_LIMIT == 100
DEFAULT_LIMIT == 10
MIN_SKIP == 0
DEFAULT_SKIP == 0

(************************** python helpers *********************************)
None == <<>>
Some(v) == <<v>>
EmptyDict == [k \in {} |-> 0]
Min(a, b) == IF a < b THEN a ELSE b
Max(a, b) == IF a > b THEN a ELSE b
Range(s) == {s[i] : i \in 1..Len(s)}

\* {**b, **a}: the left operand wins
DictMerge_LeftWins(a, b) ==
    [k \in (DOMAIN a) \cup (DOMAIN b) |-> IF k \in DOMAIN a THEN a[k] ELSE b[k]]

\* {**a, **b}
DictMerge(a, b) ==
    [k \in (DOMAIN a) \cup (DOMAIN b) |-> IF k \in DOMAIN b THEN b[k] ELSE a[k]]

(****************************** the store **********************************)
\* The k-th BSON document of the collection; _id is a store-native ObjectId
\* (modelled by the number k), the other fields are plain values.
RawDoc(k) ==
    IF k % 3 = 0 THEN [_id |-> k, a |-> k % 2, title |-> <<"P", "y">>]
                 ELSE [_id |-> k, a |-> k % 2, b |-> 2]

StoreSizes == (0..MaxDocs) \cup {25}

\* str.lower() on the characters the model uses; text is a tuple of characters
LowerChar(ch) ==
    CASE ch = "P" -> "p"
      [] ch = "Y" -> "y"
      [] OTHER    -> ch
Lower(text) == [i \in 1..Len(text) |-> LowerChar(text[i])]

\* {"$regex": pattern, "$options": "i"} on a text value: the pattern (plain
\* characters) occurs somewhere in the text, letter case ignored
RegexSearch(cond, text) ==
    LET p == IF "i" \in Range(cond["$options"]) THEN Lower(cond["$regex"]) ELSE cond["$regex"]
        t == IF "i" \in Range(cond["$options"]) THEN Lower(text) ELSE text
    IN  \E k \in 0..Len(t) : k + Len(p) <= Len(t) /\ SubSeq(t, k + 1, k + Len(p)) = p

\* the fields the client's text search puts a $regex condition on
TextFields == {"content", "title", "description"}

\* a filter matches the documents that satisfy every entry: {"$or": [...]}
\* by one of its clauses, a text field by its $regex condition, any other
\* {field: value} by equality
RECURSIVE Matches(_, _)
Matches(doc, query) ==
    \A f \in DOMAIN query :
        IF f = "$or" THEN \E i \in 1..Len(query[f]) : Matches(doc, query[f][i])
        ELSE IF f \in TextFields THEN f \in DOMAIN doc /\ RegexSearch(query[f], doc[f])
        ELSE f \in DOMAIN doc /\ doc[f] = query[f]

\* collection.find(query): the matching documents in store order
Find(query) == SelectSeq(collection, LAMBDA d : Matches(d, query))

\* doc['_id'] = str(doc['_id'])
StrId(doc) ==
    IF "_id" \in DOMAIN doc
    THEN [k \in DOMAIN doc |-> IF k = "_id" THEN ToString(doc[k]) ELSE doc[k]]
    ELSE doc

\* a cursor that an answered call leaves advanced for the next one
search_documents_SharedCursor(query, limit, skip) ==
    LET found == Find(query)
        moved == IF \E c \in DOMAIN calls : calls[c].pc = "responded" THEN 1 ELSE 0
        page  == SubSeq(found, skip + moved + 1, Min(skip + moved + limit, Len(found)))
    IN  [i \in 1..Len(page) |-> StrId(page[i])]

\* MongoDBClient.search_documents on a store call that succeeds
search_documents(query, limit, skip) ==
    LET found == Find(query)
        page  == SubSeq(found, skip + 1, Min(skip + limit, Len(found)))
    IN  [i \in 1..Len(page) |-> StrId(page[i])]

\* the outcomes of one round trip to the store
StoreOutcomes == {"ok", "PyMongoError", "InvalidDocument"}

\* MongoDBClient.count_documents: [raised, value]
count_documents(query, outcome) ==
    CASE outcome = "ok"           -> [raised |-> None, value |-> Len(Find(query))]
      [] outcome = "PyMongoError" -> [raised |-> None, value |-> 0]
      [] OTHER                    -> [raised |-> Some(outcome), value |-> 0]

(****************************** tools **************************************)
\* ToolOutput(success, data, error, metadata) with the model's defaults
ToolOutput(success, data, error, metadata) ==
    [success |-> success, data |-> data, error |-> error, metadata |-> metadata]

MongoDBSearchTool ==
    [name |-> "mongodb_search",
     description |-> "Search documents in MongoDB collection using query parameters",
     impl |-> "search"]

\* tools an extender can register: they return a result or raise
EchoTool == [name |-> "echo", description |-> "echo", impl |-> "returns"]
EchoRaisingTool == [name |-> "echo", description |-> "echo v2", impl |-> "raises"]
BoomTool == [name |-> "boom", description |-> "boom", impl |-> "raises"]
CustomTools == {EchoTool, EchoRaisingTool, BoomTool}

\* MongoDBSearchTool.get_schema
get_schema(tool) ==
    IF tool.impl = "search"
    THEN [type |-> "object",
          properties |-> {"query", "limit", "skip", "fields"},
          required |-> {}]
    ELSE [type |-> "object", properties |-> {}, required |-> {}]

\* BaseTool.get_tool_info
get_tool_info(tool) ==
    [name |-> tool.name, description |-> tool.description, schema |-> get_schema(tool)]

(***************************** registry ************************************)
\* self.tools is an insertion-ordered dict: a sequence of [key, tool]
Keys(reg) == [i \in 1..Len(reg) |-> reg[i].key]
HasKey(reg, name) == \E i \in 1..Len(reg) : reg[i].key = name

\* a registration that appends without looking for the name
register_tool_Append(reg, tool) == Append(reg, [key |-> tool.name, tool |-> tool])

\* a registration that keeps the tool already registered under the name
register_tool_FirstWins(reg, tool) ==
    IF HasKey(reg, tool.name) THEN reg
    ELSE Append(reg, [key |-> tool.name, tool |-> tool])

\* self.tools[tool.name] = tool
register_tool(reg, tool) ==
    IF HasKey(reg, tool.name)
    THEN [i \in 1..Len(reg) |->
             IF reg[i].key = tool.name THEN [key |-> tool.name, tool |-> tool] ELSE reg[i]]
    ELSE Append(reg, [key |-> tool.name, tool |-> tool])

\* ToolHandler.get_available_tools
get_available_tools(reg) == [i \in 1..Len(reg) |-> get_tool_info(reg[i].tool)]

\* ToolHandler.get_tool: self.tools.get(tool_name)
get_tool(reg, name) ==
    IF HasKey(reg, name)
    THEN Some((CHOOSE e \in Range(reg) : e.key = name).tool)
    ELSE None

(******************* search tool: validation and projection ****************)
\* MongoDBSearchInput(**inputs): the validated model, or None when pydantic
\* raises ValidationError
IntFieldOk(raw, lo, hi) ==
    \/ raw.kind = "absent"
    \/ raw.kind = "int" /\ raw.v >= lo /\ raw.v <= hi

\* a bound check that lets MAX_LIMIT + 1 through
LimitOk_OffByOne(raw) == IntFieldOk(raw, MIN_LIMIT, MAX_LIMIT + 1)
LimitOk(raw) == IntFieldOk(raw, MIN_LIMIT, MAX_LIMIT)
SkipOk(raw) == raw.kind = "absent" \/ (raw.kind = "int" /\ raw.v >= MIN_SKIP)
QueryOk(raw) == raw.kind \in {"absent", "dict"}
FieldsOk(raw) == raw.kind \in {"absent", "none", "list"}

\* a model in which limit has no default
MongoDBSearchInput_LimitRequired(inputs) ==
    IF LimitOk(inputs.limit) /\ inputs.limit.kind # "absent" /\ SkipOk(inputs.skip)
       /\ QueryOk(inputs.query) /\ FieldsOk(inputs.fields)
    THEN Some([query  |-> IF inputs.query.kind = "absent" THEN EmptyDict ELSE inputs.query.v,
               limit  |-> inputs.limit.v,
               skip   |-> IF inputs.skip.kind = "absent" THEN DEFAULT_SKIP ELSE inputs.skip.v,
               fields |-> IF inputs.fields.kind = "list" THEN Some(inputs.fields.v) ELSE None])
    ELSE None

MongoDBSearchInput(inputs) ==
    IF LimitOk(inputs.limit) /\ SkipOk(inputs.skip)
       /\ QueryOk(inputs.query) /\ FieldsOk(inputs.fields)
    THEN Some([query  |-> IF inputs.query.kind = "absent" THEN EmptyDict ELSE inputs.query.v,
               limit  |-> IF inputs.limit.kind = "absent" THEN DEFAULT_LIMIT ELSE inputs.limit.v,
               skip   |-> IF inputs.skip.kind = "absent" THEN DEFAULT_SKIP ELSE inputs.skip.v,
               fields |-> IF inputs.fields.kind = "list" THEN Some(inputs.fields.v) ELSE None])
    ELSE None

\* inputs.get("query", {}): the raw value, whatever its type
RawQuery(inputs) ==
    IF inputs.query.kind = "absent" THEN [kind |-> "dict", v |-> EmptyDict] ELSE inputs.query

\* a projection that keeps only the requested keys
FilterDoc_RequestedOnly(doc, fields) ==
    [k \in Range(fields) \cap DOMAIN doc |-> doc[k]]

\* the loop over search_input.fields plus the _id rule
FilterDoc(doc, fields) ==
    [k \in (Range(fields) \cap DOMAIN doc) \cup ({"_id"} \cap DOMAIN doc) |-> doc[k]]

\* if search_input.fields is not None: an empty list projects too
Project_NotNone(documents, fields) ==
    IF fields # None
    THEN [i \in 1..Len(documents) |-> FilterDoc(documents[i], fields[1])]
    ELSE documents

\* if search_input.fields: ... documents = filtered_documents
Project(documents, fields) ==
    IF fields # None /\ Len(fields[1]) > 0
    THEN [i \in 1..Len(documents) |-> FilterDoc(documents[i], fields[1])]
    ELSE documents

\* has_more computed with >= instead of >
SearchMetadata_HasMoreGeq(si, documents, total_count) ==
    [total_count    |-> total_count,
     returned_count |-> Len(documents),
     query          |-> [kind |-> "dict", v |-> si.query],
     limit          |-> si.limit,
     skip           |-> si.skip,
     has_more       |-> total_count >= (si.skip + Len(documents))]

\* the metadata of a successful search
SearchMetadata(si, documents, total_count) ==
    [total_count    |-> total_count,
     returned_count |-> Len(documents),
     query          |-> [kind |-> "dict", v |-> si.query],
     limit          |-> si.limit,
     skip           |-> si.skip,
     has_more       |-> total_count > (si.skip + Len(documents))]

\* except PyMongoError as e
SearchCatches_StoreOnly(cause) == cause = "PyMongoError"

\* except Exception as e: every exception raised inside the try is caught
SearchCatches(cause) == TRUE

\* a failure result that carries an empty page as data
SearchFailure_WithData(inputs, cause) ==
    ToolOutput(FALSE, Some(<<>>), Some(<<"MongoDB search failed: ", cause>>),
               [query |-> RawQuery(inputs)])

\* the except branch of MongoDBSearchTool.execute
SearchFailure(inputs, cause) ==
    ToolOutput(FALSE, None, Some(<<"MongoDB search failed: ", cause>>),
               [query |-> RawQuery(inputs)])

(*************************** handler results *******************************)
\* a not-found result that lists the names in sorted-last-first order
NotFound_Reversed(reg, tool_name) ==
    ToolOutput(FALSE, None, Some(<<"Tool '", tool_name, "' not found">>),
               [available_tools |-> [i \in 1..Len(reg) |-> reg[Len(reg) + 1 - i].key]])

\* ToolHandler.execute_tool, tool not found
NotFound(reg, tool_name) ==
    ToolOutput(FALSE, None, Some(<<"Tool '", tool_name, "' not found">>),
               [available_tools |-> Keys(reg)])

\* no except around tool.execute
HandlerCatches_Nothing(cause) == FALSE

\* ToolHandler.execute_tool: except Exception around tool.execute
HandlerCatches(cause) == TRUE

\* ToolHandler.execute_tool, the except branch
ExecutionError(tool_name, cause) ==
    ToolOutput(FALSE, None, Some(<<"Tool execution error: ", cause>>),
               [tool_name |-> tool_name])

\* settings.MCP_VERSION
MCP_VERSION == "1.0.0"

\* server.execute_tool: merge the metadata and build the MCPResponse
MCPResponse(request, result) ==
    [success     |-> result.success,
     data        |-> result.data,
     error       |-> result.error,
     metadata    |-> DictMerge(request.metadata, result.metadata),
     mcp_version |-> MCP_VERSION]

\* server.execute_tool, the except branch
ServerFailure(request, cause) ==
    [success     |-> FALSE,
     data        |-> None,
     error       |-> Some(<<"Tool execution failed: ", cause>>),
     metadata    |-> [tool_name |-> request.tool_name],
     mcp_version |-> MCP_VERSION]

\* the handler returns the response object whatever result.success is, so
\* the framework answers with its default status
HTTP_OK == 200
\* a status that encodes the outcome of the operation
ResponseStatus_FromSuccess(result) == IF result.success THEN HTTP_OK ELSE 500
ResponseStatus(result) == HTTP_OK

\* the framework rejects a body that does not validate as MCPRequest
HTTP_UNPROCESSABLE == 422

(****************************** inputs *************************************)
QueryInputs ==
    {[kind |-> "absent", v |-> EmptyDict],
     [kind |-> "dict", v |-> EmptyDict],
     [kind |-> "dict", v |-> [a |-> 1]],
     [kind |-> "bad", v |-> EmptyDict]}

LimitInputs ==
    {[kind |-> "absent", v |-> 0], [kind |-> "bad", v |-> 0]}
    \cup {[kind |-> "int", v |-> n] :
             n \in {MIN_LIMIT - 1, MIN_LIMIT, 2, DEFAULT_LIMIT, MAX_LIMIT, MAX_LIMIT + 1}}

SkipInputs ==
    {[kind |-> "absent", v |-> 0], [kind |-> "bad", v |-> 0]}
    \cup {[kind |-> "int", v |-> n] : n \in {MIN_SKIP - 1, MIN_SKIP, 1, 20}}

FieldsInputs ==
    {[kind |-> "absent", v |-> <<>>], [kind |-> "none", v |-> <<>>],
     [kind |-> "bad", v |-> <<>>]}
    \cup {[kind |-> "list", v |-> f] : f \in {<<>>, <<"a">>, <<"c">>, <<"b", "a">>}}

SearchInputs ==
    [query : QueryInputs, limit : LimitInputs, skip : SkipInputs, fields : FieldsInputs]

EmptyInputs ==
    [query  |-> [kind |-> "absent", v |-> EmptyDict],
     limit  |-> [kind |-> "absent", v |-> 0],
     skip   |-> [kind |-> "absent", v |-> 0],
     fields |-> [kind |-> "absent", v |-> <<>>]]

ToolNames == {"mongodb_search", "echo", "boom", "nonexistent"}
RequestMetadata == {EmptyDict, [x |-> 1], [limit |-> 7]}

\* MCPRequest bodies that validate: tool_name, inputs, metadata
Requests ==
    {[tool_name |-> n, inputs |-> i, metadata |-> m] :
        n \in ToolNames, i \in SearchInputs, m \in RequestMetadata}

Calls == {1}

\* the client between two operations
IdleClient ==
    [pc |-> "idle", op |-> "none", prompt |-> <<>>, tool_name |-> "",
     request |-> None, error |-> None, http |-> None, result |-> None]

IdleCall ==
    [pc |-> "idle", request |-> None, tool |-> None, search_input |-> None,
     documents |-> <<>>, total_count |-> 0, store_calls |-> <<>>,
     exc |-> None, result |-> None, response |-> None]

(****************************** actions ************************************)
Init ==
    /\ tools = register_tool(<<>>, MongoDBSearchTool)
    /\ \E n \in StoreSizes : collection = [k \in 1..n |-> RawDoc(k)]
    /\ calls = [c \in Calls |-> IdleCall]
    /\ loop = 0
    /\ client = IdleClient

\* ToolHandler.register_tool, called between requests
RegisterTool(t) ==
    /\ loop = 0
    /\ tools' = register_tool(tools, t)
    /\ UNCHANGED <<collection, calls, loop, client>>

\* POST /execute arrives; the body is validated against MCPRequest
Receive(c) ==
    /\ calls[c].pc = "idle"
    /\ \/ \E r \in Requests :
            /\ r.tool_name # "mongodb_search" => r.inputs = EmptyInputs
            /\ calls' = [calls EXCEPT ![c].pc = "handler", ![c].request = Some(r)]
       \/ calls' = [calls EXCEPT ![c].pc = "responded",
                                 ![c].response = Some([status |-> HTTP_UNPROCESSABLE,
                                                       body |-> [detail |-> "validation error"]])]
    /\ UNCHANGED <<tools, collection, loop, client>>

\* server.execute_tool calls ToolHandler.execute_tool: the lookup
Dispatch(c) ==
    /\ calls[c].pc = "handler"
    /\ loop = 0
    /\ loop' = c
    /\ LET name == calls[c].request[1].tool_name
           tool == get_tool(tools, name)
       IN  IF tool = None
           THEN calls' = [calls EXCEPT ![c].pc = "respond",
                                       ![c].result = Some(NotFound(tools, name))]
           ELSE calls' = [calls EXCEPT ![c].tool = tool,
                                       ![c].pc = IF tool[1].impl = "search"
                                                 THEN "validate" ELSE "custom"]
    /\ UNCHANGED <<tools, collection, client>>

\* execute of a registered tool other than the search tool
CustomExecute(c) ==
    /\ calls[c].pc = "custom"
    /\ IF calls[c].tool[1].impl = "returns"
       THEN calls' = [calls EXCEPT ![c].pc = "returned",
                         ![c].result = Some(ToolOutput(TRUE, Some(<<>>), None,
                                                       [x |-> 2, y |-> 3]))]
       ELSE calls' = [calls EXCEPT ![c].pc = "raised",
                                   ![c].exc = Some("tool failed")]
    /\ UNCHANGED <<tools, collection, loop, client>>

\* a handler that tries the store call again after a store error
SearchRaise_Retry(call, cause) ==
    IF cause = "PyMongoError"
    THEN [call EXCEPT !.pc = "query"]
    ELSE [call EXCEPT !.pc = "returned",
                      !.result = Some(SearchFailure(call.request[1].inputs, cause))]

\* an exception raised inside the try block of MongoDBSearchTool.execute
SearchRaise(call, cause) ==
    IF SearchCatches(cause)
    THEN [call EXCEPT !.pc = "returned",
                      !.result = Some(SearchFailure(call.request[1].inputs, cause))]
    ELSE [call EXCEPT !.pc = "raised", !.exc = Some(cause)]

\* search_input = MongoDBSearchInput(**inputs)
Validate(c) ==
    /\ calls[c].pc = "validate"
    /\ LET si == MongoDBSearchInput(calls[c].request[1].inputs)
       IN  IF si = None
           THEN calls' = [calls EXCEPT ![c] = SearchRaise(calls[c], "ValidationError")]
           ELSE calls' = [calls EXCEPT ![c].pc = "query", ![c].search_input = si]
    /\ UNCHANGED <<tools, collection, loop, client>>

\* documents = mongodb_client.search_documents(query, limit, skip)
Query(c) ==
    /\ calls[c].pc = "query"
    /\ \E outcome \in StoreOutcomes :
        LET si     == calls[c].search_input[1]
            called == [calls[c] EXCEPT !.store_calls =
                                     Append(@, [op |-> "query", outcome |-> outcome])]
        IN  IF outcome = "ok"
            THEN calls' = [calls EXCEPT ![c] =
                     [called EXCEPT !.pc = "project",
                                    !.documents = search_documents(si.query, si.limit, si.skip)]]
            ELSE calls' = [calls EXCEPT ![c] = SearchRaise(called, outcome)]
    /\ UNCHANGED <<tools, collection, loop, client>>

\* filter fields if specified
ProjectFields(c) ==
    /\ calls[c].pc = "project"
    /\ calls' = [calls EXCEPT ![c].pc = "count",
                    ![c].documents = Project(@, calls[c].search_input[1].fields)]
    /\ UNCHANGED <<tools, collection, loop, client>>

\* total_count = mongodb_client.count_documents(query)
Count(c) ==
    /\ calls[c].pc = "count"
    /\ \E outcome \in StoreOutcomes :
        LET r      == count_documents(calls[c].search_input[1].query, outcome)
            called == [calls[c] EXCEPT !.store_calls =
                                     Append(@, [op |-> "count", outcome |-> outcome])]
        IN  IF r.raised # None
            THEN calls' = [calls EXCEPT ![c] = SearchRaise(called, r.raised[1])]
            ELSE calls' = [calls EXCEPT ![c] =
                     [called EXCEPT !.pc = "build", !.total_count = r.value]]
    /\ UNCHANGED <<tools, collection, loop, client>>

\* prepare metadata and return ToolOutput(success=True, ...)
Build(c) ==
    /\ calls[c].pc = "build"
    /\ calls' = [calls EXCEPT ![c].pc = "returned",
          ![c].result = Some(ToolOutput(TRUE, Some(calls[c].documents), None,
                               SearchMetadata(calls[c].search_input[1],
                                              calls[c].documents,
                                              calls[c].total_count)))]
    /\ UNCHANGED <<tools, collection, loop, client>>

\* ToolHandler.execute_tool after tool.execute: return result, or the except branch
HandlerReturn(c) ==
    /\ calls[c].pc \in {"returned", "raised"}
    /\ IF calls[c].pc = "returned"
       THEN calls' = [calls EXCEPT ![c].pc = "respond"]
       ELSE IF HandlerCatches(calls[c].exc[1])
            THEN calls' = [calls EXCEPT ![c].pc = "respond",
                     ![c].result = Some(ExecutionError(calls[c].request[1].tool_name,
                                                       calls[c].exc[1]))]
            ELSE calls' = [calls EXCEPT ![c].pc = "propagated"]
    /\ UNCHANGED <<tools, collection, loop, client>>

\* server.execute_tool returns its response: the merged MCPResponse, or the
\* one of its own except branch when execute_tool let an exception through
Respond(c) ==
    /\ calls[c].pc \in {"respond", "propagated"}
    /\ IF calls[c].pc = "respond"
       THEN calls' = [calls EXCEPT ![c].pc = "responded",
               ![c].response = Some([status |-> ResponseStatus(calls[c].result[1]),
                                     body |-> MCPResponse(calls[c].request[1],
                                                          calls[c].result[1])])]
       ELSE calls' = [calls EXCEPT ![c].pc = "responded",
               ![c].response = Some([status |-> HTTP_OK,
                                     body |-> ServerFailure(calls[c].request[1],
                                                            calls[c].exc[1])])]
    /\ loop' = 0
    /\ UNCHANGED <<tools, collection, client>>

\* the response has been sent; the call's data is discarded
Deliver(c) ==
    /\ calls[c].pc = "responded"
    /\ calls' = [calls EXCEPT ![c] = IdleCall]
    /\ UNCHANGED <<tools, collection, loop, client>>

Next ==
    \/ \E t \in CustomTools \cup {MongoDBSearchTool} : RegisterTool(t)
    \/ \E c \in Calls :
        \/ Receive(c)
        \/ Dispatch(c)
        \/ CustomExecute(c)
        \/ Validate(c)
        \/ Query(c)
        \/ ProjectFields(c)
        \/ Count(c)
        \/ Build(c)
        \/ HandlerReturn(c)
        \/ Respond(c)
        \/ Deliver(c)

Spec == Init /\ [][Next]_vars

(****************************** the client *********************************)
\* str.strip(): the text without its leading and trailing blanks
Strip(text) ==
    LET solid == {i \in 1..Len(text) : text[i] # " "}
    IN  IF solid = {} THEN <<>>
        ELSE SubSeq(text, CHOOSE i \in solid : \A j \in solid : i <= j,
                          CHOOSE i \in solid : \A j \in solid : i >= j)

\* process_prompt: the text search filter built from the prompt
PromptQuery(prompt) ==
    LET search_terms == Strip(Lower(prompt))
        cond == ("$regex" :> search_terms) @@ ("$options" :> <<"i">>)
    IN  "$or" :> <<"content" :> cond, "title" :> cond, "description" :> cond>>

PROMPT_LIMIT == 20

\* search_documents: request_data for tool mongodb_search; query and fields
\* are Optional arguments
SearchRequestData(query, limit, skip, fields) ==
    [tool_name |-> "mongodb_search",
     inputs |->
        [query  |-> [kind |-> "dict",
                     v |-> IF query = None \/ query[1] = EmptyDict THEN EmptyDict ELSE query[1]],
         limit  |-> [kind |-> "int", v |-> limit],
         skip   |-> [kind |-> "int", v |-> skip],
         fields |-> IF fields # None /\ Len(fields[1]) > 0
                    THEN [kind |-> "list", v |-> fields[1]]
                    ELSE [kind |-> "absent", v |-> <<>>]],
     metadata |-> [client_request |-> TRUE, timestamp |-> None]]

\* execute_custom_tool: request_data; inputs None is sent as JSON null
CustomRequestData(tool_name, inputs, metadata) ==
    [tool_name |-> tool_name,
     inputs    |-> inputs,
     metadata  |-> IF metadata = None \/ metadata[1] = EmptyDict THEN EmptyDict ELSE metadata[1]]

\* the body validates as MCPRequest: inputs must be an object
BodyValid(body) == body.inputs # None

HTTP_NOT_FOUND == 404

\* an endpoint that answers an unknown name with the first descriptor
ToolInfoEndpoint_NoNotFound(reg, tool_name) ==
    IF get_tool(reg, tool_name) = None
    THEN [status |-> HTTP_OK, body |-> get_tool_info(reg[1].tool)]
    ELSE [status |-> HTTP_OK, body |-> get_tool_info(get_tool(reg, tool_name)[1])]

\* GET /tools/{tool_name}
ToolInfoEndpoint(reg, tool_name) ==
    IF get_tool(reg, tool_name) = None
    THEN [status |-> HTTP_NOT_FOUND,
          body |-> [detail |-> <<"Tool '", tool_name, "' not found">>]]
    ELSE [status |-> HTTP_OK, body |-> get_tool_info(get_tool(reg, tool_name)[1])]

\* _make_request: the exception it raises (RequestException from the
\* transport, HTTPError from raise_for_status), or the decoded body
MakeRequest(error, http) ==
    IF error # None THEN [raised |-> Some(<<error[1]>>), value |-> None]
    ELSE IF http[1].status >= 400
         THEN [raised |-> Some(<<"HTTPError ", ToString(http[1].status)>>), value |-> None]
         ELSE [raised |-> None, value |-> Some(http[1].body)]

\* an except branch that answers like execute_custom_tool, with data None
SearchDocumentsFailure_NullData(text) ==
    [success |-> FALSE, error |-> Some(text), data |-> None, metadata |-> EmptyDict]

\* search_documents: the except branch
SearchDocumentsFailure(text) ==
    [success |-> FALSE, error |-> Some(text), data |-> Some(<<>>), metadata |-> EmptyDict]

\* search_documents: what it returns
SearchDocumentsResult(mr) ==
    IF mr.raised # None THEN SearchDocumentsFailure(mr.raised[1]) ELSE mr.value[1]

\* execute_custom_tool: what it returns
CustomToolResult(mr, tool_name) ==
    IF mr.raised # None
    THEN [success |-> FALSE, error |-> Some(mr.raised[1]), data |-> None,
          metadata |-> [tool_name |-> tool_name]]
    ELSE mr.value[1]

\* process_prompt: the prompt metadata is added if result.get("metadata")
PromptResult(result, prompt) ==
    IF result.metadata # EmptyDict
    THEN [result EXCEPT !.metadata =
             DictMerge(@, [original_prompt |-> prompt, query_type |-> "text_search"])]
    ELSE result

\* get_tool_info of the client: the descriptor, or None
ClientToolInfo(mr) == IF mr.raised # None THEN None ELSE mr.value

Prompts == {<<"P", "y">>, <<" ", "p", "Y", " ">>, <<"a">>, <<" ">>}

\* the client starts process_prompt(prompt)
ProcessPrompt ==
    /\ client.pc = "idle"
    /\ \E p \in Prompts :
        client' = [client EXCEPT !.pc = "send", !.op = "process_prompt", !.prompt = p,
                       !.request = Some(SearchRequestData(Some(PromptQuery(p)),
                                                          PROMPT_LIMIT, DEFAULT_SKIP, None))]
    /\ UNCHANGED <<tools, collection, calls, loop>>

\* the client starts search_documents(query, limit, skip, fields)
SearchDocuments ==
    /\ client.pc = "idle"
    /\ \E q \in {None, Some(EmptyDict), Some([a |-> 1])}, l \in {DEFAULT_LIMIT, 0},
          f \in {None, Some(<<>>), Some(<<"a">>)} :
        client' = [client EXCEPT !.pc = "send", !.op = "search_documents",
                       !.request = Some(SearchRequestData(q, l, DEFAULT_SKIP, f))]
    /\ UNCHANGED <<tools, collection, calls, loop>>

\* the client starts execute_custom_tool(tool_name, inputs, metadata)
ExecuteCustomTool ==
    /\ client.pc = "idle"
    /\ \E n \in {"echo", "nonexistent"}, i \in {EmptyInputs, None},
          m \in {None, Some([x |-> 1])} :
        client' = [client EXCEPT !.pc = "send", !.op = "execute_custom_tool",
                       !.tool_name = n,
                       !.request = Some(CustomRequestData(n, i, m))]
    /\ UNCHANGED <<tools, collection, calls, loop>>

\* the client starts get_tool_info(tool_name)
GetToolInfo ==
    /\ client.pc = "idle"
    /\ \E n \in ToolNames :
        client' = [client EXCEPT !.pc = "send", !.op = "get_tool_info", !.tool_name = n]
    /\ UNCHANGED <<tools, collection, calls, loop>>

\* session.post / session.get fails before an answer arrives
TransportFails ==
    /\ client.pc = "send"
    /\ client' = [client EXCEPT !.pc = "return", !.error = Some("ConnectionError")]
    /\ UNCHANGED <<tools, collection, calls, loop>>

\* POST /execute reaches the server, which validates the body
PostExecute(c) ==
    /\ client.pc = "send" /\ client.request # None
    /\ calls[c].pc = "idle"
    /\ IF BodyValid(client.request[1])
       THEN calls' = [calls EXCEPT ![c].pc = "handler", ![c].request = client.request]
       ELSE calls' = [calls EXCEPT ![c].pc = "responded",
                         ![c].response = Some([status |-> HTTP_UNPROCESSABLE,
                                               body |-> [detail |-> "validation error"]])]
    /\ client' = [client EXCEPT !.pc = "wait"]
    /\ UNCHANGED <<tools, collection, loop>>

\* GET /tools/{tool_name} is served and answered
GetTool ==
    /\ client.pc = "send" /\ client.op = "get_tool_info"
    /\ loop = 0
    /\ client' = [client EXCEPT !.pc = "return",
                      !.http = Some(ToolInfoEndpoint(tools, client.tool_name))]
    /\ UNCHANGED <<tools, collection, calls, loop>>

\* the response of POST /execute arrives at the client
ReceiveResponse(c) ==
    /\ client.pc = "wait"
    /\ calls[c].pc = "responded"
    /\ client' = [client EXCEPT !.pc = "return", !.http = calls[c].response]
    /\ calls' = [calls EXCEPT ![c] = IdleCall]
    /\ UNCHANGED <<tools, collection, loop>>

\* _make_request ends and the operation returns its result
ClientReturn ==
    /\ client.pc = "return"
    /\ LET mr == MakeRequest(client.error, client.http)
       IN  client' = [client EXCEPT !.pc = "done", !.result =
              CASE client.op = "process_prompt" ->
                       Some(PromptResult(SearchDocumentsResult(mr), client.prompt))
                [] client.op = "search_documents" -> Some(SearchDocumentsResult(mr))
                [] client.op = "execute_custom_tool" ->
                       Some(CustomToolResult(mr, client.tool_name))
                [] OTHER -> ClientToolInfo(mr)]
    /\ UNCHANGED <<tools, collection, calls, loop>>

\* the caller has the result; the client is ready for the next operation
ClientDone ==
    /\ client.pc = "done"
    /\ client' = IdleClient
    /\ UNCHANGED <<tools, collection, calls, loop>>

NextClient ==
    \/ \E t \in {EchoTool, EchoRaisingTool} : RegisterTool(t)
    \/ ProcessPrompt
    \/ SearchDocuments
    \/ ExecuteCustomTool
    \/ GetToolInfo
    \/ TransportFails
    \/ GetTool
    \/ ClientReturn
    \/ ClientDone
    \/ \E c \in Calls :
        \/ PostExecute(c)
        \/ ReceiveResponse(c)
        \/ Dispatch(c)
        \/ CustomExecute(c)
        \/ Validate(c)
        \/ Query(c)
        \/ ProjectFields(c)
        \/ Count(c)
        \/ Build(c)
        \/ HandlerReturn(c)
        \/ Respond(c)

SpecClient == Init /\ [][NextClient]_vars

(*********************** two calls at the same time *************************)
\* two /execute calls can be outstanding; their requests come from a small set
ConcCalls == {1, 2}

ConcInputs ==
    {EmptyInputs,
     [EmptyInputs EXCEPT !.limit = [kind |-> "int", v |-> 1],
                         !.skip = [kind |-> "int", v |-> 1],
                         !.fields = [kind |-> "list", v |-> <<"a">>]],
     [EmptyInputs EXCEPT !.limit = [kind |-> "int", v |-> 0]]}

ConcRequests ==
    {[tool_name |-> "mongodb_search", inputs |-> i, metadata |-> EmptyDict] :
        i \in ConcInputs}
    \cup {[tool_name |-> n, inputs |-> EmptyInputs, metadata |-> [x |-> 1]] :
             n \in {"echo", "nonexistent"}}

InitConc ==
    /\ tools = register_tool(<<>>, MongoDBSearchTool)
    /\ \E n \in StoreSizes : collection = [k \in 1..n |-> RawDoc(k)]
    /\ calls = [c \in ConcCalls |-> IdleCall]
    /\ loop = 0
    /\ client = IdleClient

\* POST /execute arrives while another call may be outstanding
ReceiveConc(c) ==
    /\ calls[c].pc = "idle"
    /\ \E r \in ConcRequests :
          calls' = [calls EXCEPT ![c].pc = "handler", ![c].request = Some(r)]
    /\ UNCHANGED <<tools, collection, loop, client>>

NextConc ==
    \/ \E t \in {EchoTool, EchoRaisingTool} : RegisterTool(t)
    \/ \E c \in ConcCalls :
        \/ ReceiveConc(c)
        \/ Dispatch(c)
        \/ CustomExecute(c)
        \/ Validate(c)
        \/ Query(c)
        \/ ProjectFields(c)
        \/ Count(c)
        \/ Build(c)
        \/ HandlerReturn(c)
        \/ Respond(c)
        \/ Deliver(c)

SpecConc == InitConc /\ [][NextConc]_vars

TypeOK ==
    /\ loop \in DOMAIN calls \cup {0}
    /\ \A c \in DOMAIN calls : calls[c].pc \in
          {"idle", "handler", "validate", "custom", "query", "project", "count",
           "build", "returned", "raised", "respond", "propagated", "responded"}

(************************ claims: shared notions ***************************)
\* the call went to the search tool
IsSearchCall(c) == calls[c].tool = Some(MongoDBSearchTool)
\* the tool's execute has ended and ToolHandler.execute_tool has its outcome
ExecuteEnded(c) == calls[c].pc \in {"returned", "raised", "respond", "responded"}
InputsOf(c) == calls[c].request[1].inputs
ResultOf(c) == calls[c].result[1]
StoreFailed(c) ==
    \E i \in 1..Len(calls[c].store_calls) : calls[c].store_calls[i].outcome # "ok"
\* the values a search is asked for, with the documented defaults
AskedLimit(c) == IF InputsOf(c).limit.kind = "absent" THEN 10 ELSE InputsOf(c).limit.v
AskedSkip(c) == IF InputsOf(c).skip.kind = "absent" THEN 0 ELSE InputsOf(c).skip.v
AskedQuery(c) == IF InputsOf(c).query.kind = "absent" THEN EmptyDict ELSE InputsOf(c).query.v
\* the number of records of the store that match the filter of the call
MatchCount(c) ==
    Cardinality({i \in DOMAIN collection : Matches(collection[i], AskedQuery(c))})

(******************************** C1 ***************************************)
OutOfRange(inputs) ==
    \/ inputs.limit.kind = "int" /\ (inputs.limit.v < 1 \/ inputs.limit.v > 100)
    \/ inputs.skip.kind = "int" /\ inputs.skip.v < 0

\* C1: a search whose limit is an integer outside [1,100] or whose skip is an
\* integer below 0 never reaches a store call, and its execute returns a
\* result with success = false; the value is never clamped and used.
C1_OutOfRangeRejected ==
    \A c \in Calls :
        (IsSearchCall(c) /\ OutOfRange(InputsOf(c))) =>
            /\ calls[c].store_calls = <<>>
            /\ calls[c].search_input = None
            /\ calls[c].pc \notin {"query", "project", "count", "build", "raised"}
            /\ ExecuteEnded(c) => (calls[c].result # None /\ ~ResultOf(c).success)

C1_Witness ==
    \E c \in Calls :
        /\ IsSearchCall(c) /\ calls[c].pc = "returned"
        /\ InputsOf(c).limit = [kind |-> "int", v |-> 101]
        /\ InputsOf(c).skip = [kind |-> "int", v |-> 0]
        /\ InputsOf(c).query.kind = "dict" /\ InputsOf(c).fields.kind = "absent"
        /\ ~ResultOf(c).success /\ calls[c].store_calls = <<>>

(******************************** C2 ***************************************)
\* C2: when a store round trip of a search fails (the paginated query or the
\* count), execute returns success = false with an error message and the
\* metadata {query: raw query input}; no total_count is invented.
C2_StoreFailureFailsSearch ==
    \A c \in Calls :
        (IsSearchCall(c) /\ ExecuteEnded(c) /\ StoreFailed(c)) =>
            /\ calls[c].result # None
            /\ ~ResultOf(c).success
            /\ ResultOf(c).error # None
            /\ ResultOf(c).metadata = [query |-> RawQuery(InputsOf(c))]

(******************************** C3 ***************************************)
\* C3: with a store of N matching records and valid limit L and skip S, a
\* search whose store calls succeed returns success = true with total_count
\* = N, returned_count = Len(data) = min(L, max(0, N - S)), limit = L,
\* skip = S, query = the filter and has_more = (total_count > skip +
\* returned_count); 25 records with L = 10 give 10 and has_more at S = 0,
\* and 5 and no has_more at S = 20.
C3_PaginationMetadata ==
    \A c \in Calls :
        (IsSearchCall(c) /\ ExecuteEnded(c) /\ calls[c].search_input # None) =>
            LET r == ResultOf(c)
                m == r.metadata
                N == MatchCount(c)
                L == AskedLimit(c)
                S == AskedSkip(c)
            IN  /\ (Len(calls[c].store_calls) = 2 /\ ~StoreFailed(c)) =>
                    /\ r.success
                    /\ m.total_count = N
                    /\ m.returned_count = Min(L, Max(0, N - S))
                    /\ (N = 25 /\ L = 10 /\ S = 0) =>
                           (m.returned_count = 10 /\ m.has_more)
                    /\ (N = 25 /\ L = 10 /\ S = 20) =>
                           (m.returned_count = 5 /\ ~m.has_more)
                /\ r.success =>
                    /\ DOMAIN m = {"total_count", "returned_count", "query",
                                   "limit", "skip", "has_more"}
                    /\ m.returned_count = Len(r.data[1])
                    /\ m.limit = L
                    /\ m.skip = S
                    /\ m.query = [kind |-> "dict", v |-> AskedQuery(c)]
                    /\ m.has_more = (m.total_count > m.skip + m.returned_count)

C3_Witness ==
    \E c \in Calls :
        /\ IsSearchCall(c) /\ calls[c].pc = "returned"
        /\ Len(collection) = 25 /\ AskedQuery(c) = EmptyDict
        /\ InputsOf(c).limit = [kind |-> "int", v |-> 10]
        /\ InputsOf(c).skip = [kind |-> "int", v |-> 20]
        /\ ResultOf(c).success
        /\ ResultOf(c).metadata.total_count = 25
        /\ ResultOf(c).metadata.returned_count = 5
        /\ ~ResultOf(c).metadata.has_more

(******************************** C4 ***************************************)
HasFieldList(c) == InputsOf(c).fields.kind = "list" /\ Len(InputsOf(c).fields.v) > 0
\* the records the store returns for the call's filter, limit and skip
StorePage(c) == search_documents(AskedQuery(c), AskedLimit(c), AskedSkip(c))

\* C4: with a non-empty fields list every returned record has exactly the
\* requested keys that the store record has, plus _id when the store record
\* has one, each with the store record's value; a requested key the record
\* lacks is left out (fields ["a"] on {_id, a, b} gives {_id, a}, fields
\* ["c"] gives {_id}).
C4_FieldProjection ==
    \A c \in Calls :
        (IsSearchCall(c) /\ ExecuteEnded(c) /\ HasFieldList(c) /\ ResultOf(c).success) =>
            LET data   == ResultOf(c).data[1]
                page   == StorePage(c)
                wanted == Range(InputsOf(c).fields.v)
            IN  /\ Len(data) = Len(page)
                /\ \A i \in 1..Len(data) :
                    /\ DOMAIN data[i] =
                          {k \in DOMAIN page[i] : k \in wanted \/ k = "_id"}
                    /\ \A k \in DOMAIN data[i] : data[i][k] = page[i][k]
                    /\ (page[i] = [_id |-> "1", a |-> 1, b |-> 2] /\ wanted = {"a"}) =>
                           data[i] = [_id |-> "1", a |-> 1]
                    /\ (page[i] = [_id |-> "1", a |-> 1, b |-> 2] /\ wanted = {"c"}) =>
                           data[i] = [_id |-> "1"]

C4_Witness ==
    \E c \in Calls :
        /\ IsSearchCall(c) /\ calls[c].pc = "returned" /\ ResultOf(c).success
        /\ InputsOf(c).fields = [kind |-> "list", v |-> <<"c">>]
        /\ Len(ResultOf(c).data[1]) = 2
        /\ StorePage(c)[1] = [_id |-> "1", a |-> 1, b |-> 2]
        /\ ResultOf(c).data[1][1] = [_id |-> "1"]

(******************************** C5 ***************************************)
ListedNames == [i \in 1..Len(get_available_tools(tools)) |-> get_available_tools(tools)[i].name]
RegisteredNames == {tools[i].key : i \in 1..Len(tools)}

\* C5: execute_tool of a name that is not registered returns success =
\* false, error "Tool '<name>' not found" and metadata.available_tools = the
\* registered names in listing order, and runs no tool.
C5_UnknownToolNotFound ==
    \A c \in Calls :
        (calls[c].pc = "respond" /\ calls[c].request[1].tool_name \notin RegisteredNames) =>
            /\ calls[c].result # None
            /\ ~ResultOf(c).success
            /\ ResultOf(c).data = None
            /\ ResultOf(c).error =
                  Some(<<"Tool '", calls[c].request[1].tool_name, "' not found">>)
            /\ DOMAIN ResultOf(c).metadata = {"available_tools"}
            /\ ResultOf(c).metadata.available_tools = ListedNames
            /\ calls[c].tool = None
            /\ calls[c].store_calls = <<>>
            /\ calls[c].exc = None

C5_Witness ==
    \E c \in Calls :
        /\ calls[c].pc = "respond"
        /\ calls[c].request[1].tool_name = "nonexistent"
        /\ ResultOf(c).metadata.available_tools = <<"mongodb_search", "boom", "echo">>

(******************************** C6 ***************************************)
\* C6: after construction and any register_tool calls, the listing holds
\* exactly one descriptor per registered name and none for another name,
\* and get_tool(name).get_tool_info().name = name.
C6_OneDescriptorPerName ==
    LET listing == get_available_tools(tools)
    IN  /\ \A n \in RegisteredNames :
            /\ Cardinality({i \in 1..Len(listing) : listing[i].name = n}) = 1
            /\ get_tool(tools, n) # None
            /\ get_tool_info(get_tool(tools, n)[1]).name = n
        /\ \A i \in 1..Len(listing) : listing[i].name \in RegisteredNames
        /\ "mongodb_search" \in RegisteredNames

C6_Witness ==
    /\ Len(tools) = 3
    /\ get_tool(tools, "echo") = Some(EchoRaisingTool)
    /\ get_tool(tools, "boom") = Some(BoomTool)

(******************************** C7 ***************************************)
\* C7: the metadata of the response of a dispatched /execute request is the
\* request metadata overlaid with the result metadata: every result key
\* with the result's value, every other request key with the request's
\* value, and no other key ({x:1} with {x:2,y:3} gives {x:2,y:3}).
C7_MetadataOverlay ==
    \A c \in Calls :
        (calls[c].pc = "responded" /\ calls[c].request # None) =>
            LET req == calls[c].request[1].metadata
                res == ResultOf(c).metadata
                out == calls[c].response[1].body.metadata
            IN  /\ DOMAIN out = DOMAIN req \cup DOMAIN res
                /\ \A k \in DOMAIN res : out[k] = res[k]
                /\ \A k \in DOMAIN req \ DOMAIN res : out[k] = req[k]
                /\ (req = [x |-> 1] /\ res = [x |-> 2, y |-> 3]) => out = [x |-> 2, y |-> 3]

C7_Witness ==
    \E c \in Calls :
        /\ calls[c].pc = "responded" /\ calls[c].request # None
        /\ calls[c].request[1].metadata = [x |-> 1]
        /\ ResultOf(c).metadata = [x |-> 2, y |-> 3]
        /\ calls[c].response[1].body.metadata = [x |-> 2, y |-> 3]

(******************************** C8 ***************************************)
\* C8 as stated: every call to POST /execute is answered with status 200.
C8_EveryCallStatus200 ==
    \A c \in Calls :
        calls[c].pc = "responded" => calls[c].response[1].status = 200

\* C8 amended: every POST /execute whose body validates as a request is
\* answered with status 200 whatever the outcome of the operation, failure
\* being carried by success = false in the body; only a body that does not
\* validate is answered otherwise (422), before the operation is dispatched.
C8_ValidRequestStatus200 ==
    \A c \in Calls :
        calls[c].pc = "responded" =>
            /\ calls[c].request # None =>
                /\ calls[c].response[1].status = 200
                /\ calls[c].response[1].body.success = ResultOf(c).success
                /\ calls[c].response[1].body.error = ResultOf(c).error
            /\ calls[c].request = None =>
                /\ calls[c].response[1].status = 422
                /\ calls[c].result = None /\ calls[c].tool = None

C8_Witness ==
    \E c \in Calls :
        /\ calls[c].pc = "responded" /\ calls[c].request # None
        /\ calls[c].exc # None
        /\ calls[c].response[1].status = 200
        /\ ~calls[c].response[1].body.success

(******************************** C9 ***************************************)
\* C9: the search tool's execute is total: whatever the inputs and whatever
\* the store does on either call, it returns a result and lets no exception
\* out; a failure is a result with success = false and an error message.
C9_SearchExecuteTotal ==
    \A c \in Calls :
        IsSearchCall(c) =>
            /\ calls[c].pc \notin {"raised", "propagated"}
            /\ calls[c].exc = None
            /\ ExecuteEnded(c) =>
                /\ calls[c].result # None
                /\ ResultOf(c).success \in BOOLEAN
                /\ ~ResultOf(c).success => ResultOf(c).error # None

C9_Witness ==
    \E c \in Calls :
        /\ IsSearchCall(c) /\ calls[c].pc = "returned"
        /\ Len(calls[c].store_calls) = 2
        /\ calls[c].store_calls[2] = [op |-> "count", outcome |-> "InvalidDocument"]
        /\ ~ResultOf(c).success
        /\ ResultOf(c).error = Some(<<"MongoDB search failed: ", "InvalidDocument">>)

(******************************** C10 **************************************)
\* C10: when a registered tool's execute raises, execute_tool returns
\* success = false, error "Tool execution error: <cause>" and metadata
\* {tool_name: name}; execute_tool always ends with a structured result.
C10_HandlerWrapsRaise ==
    \A c \in Calls :
        /\ calls[c].pc # "propagated"
        /\ calls[c].pc = "respond" =>
            /\ calls[c].result # None
            /\ DOMAIN ResultOf(c) = {"success", "data", "error", "metadata"}
            /\ calls[c].exc # None =>
                  ResultOf(c) =
                      [success  |-> FALSE,
                       data     |-> None,
                       error    |-> Some(<<"Tool execution error: ", calls[c].exc[1]>>),
                       metadata |-> [tool_name |-> calls[c].request[1].tool_name]]

C10_Witness ==
    \E c \in Calls :
        /\ calls[c].pc = "respond"
        /\ calls[c].request[1].tool_name = "boom"
        /\ calls[c].exc = Some("tool failed")
        /\ ResultOf(c).error = Some(<<"Tool execution error: ", "tool failed">>)


(******************************** C11 **************************************)
\* the envelope rule: no error on success; an error message and no data on
\* failure; metadata a mapping, never null
Envelope(r) ==
    /\ r.success \in BOOLEAN
    /\ r.success => r.error = None
    /\ ~r.success => (r.error # None /\ Len(r.error[1]) > 0 /\ r.data = None)
    /\ r.metadata # None
    /\ DOMAIN r.metadata \subseteq
          {"total_count", "returned_count", "query", "limit", "skip", "has_more",
           "available_tools", "tool_name", "x", "y"}

\* C11: every result of the search tool, of the registry dispatch and of the
\* /execute endpoint satisfies the envelope rule.
C11_EnvelopeInvariant ==
    \A c \in Calls :
        /\ calls[c].result # None => Envelope(ResultOf(c))
        /\ (calls[c].pc = "responded" /\ calls[c].request # None) =>
               Envelope(calls[c].response[1].body)

C11_Witness ==
    \E c \in Calls :
        /\ IsSearchCall(c) /\ calls[c].pc = "responded"
        /\ ~calls[c].response[1].body.success
        /\ calls[c].response[1].body.data = None
        /\ calls[c].response[1].body.error =
              Some(<<"MongoDB search failed: ", "ValidationError">>)
        /\ calls[c].request[1].metadata = [limit |-> 7]
        /\ DOMAIN calls[c].response[1].body.metadata = {"limit", "query"}


(******************************** C15 **************************************)
\* every input that is present is one the model accepts
PresentInputsValid(inputs) ==
    /\ inputs.query.kind \in {"absent", "dict"}
    /\ inputs.limit.kind = "absent"
          \/ (inputs.limit.kind = "int" /\ inputs.limit.v \in 1..100)
    /\ inputs.skip.kind = "absent" \/ (inputs.skip.kind = "int" /\ inputs.skip.v >= 0)
    /\ inputs.fields.kind \in {"absent", "none", "list"}

\* C15: no search input is required.  An empty inputs mapping is accepted
\* and queries the store with filter {}, limit 10, skip 0 and no projection;
\* each omitted input takes its default whatever the others are, and the
\* metadata echoes the defaulted values.
C15_InputsDefault ==
    /\ get_schema(MongoDBSearchTool).required = {}
    /\ \A c \in Calls :
        (IsSearchCall(c) /\ calls[c].pc # "validate") =>
            LET in == InputsOf(c)
                si == calls[c].search_input
            IN  /\ PresentInputsValid(in) => si # None
                /\ in = EmptyInputs =>
                      si = Some([query |-> EmptyDict, limit |-> 10, skip |-> 0,
                                 fields |-> None])
                /\ si # None =>
                    /\ in.query.kind = "absent" => si[1].query = EmptyDict
                    /\ in.limit.kind = "absent" => si[1].limit = 10
                    /\ in.skip.kind = "absent" => si[1].skip = 0
                    /\ in.fields.kind = "absent" => si[1].fields = None
                /\ (si # None /\ ExecuteEnded(c) /\ ResultOf(c).success) =>
                    /\ in.query.kind = "absent" =>
                          ResultOf(c).metadata.query = [kind |-> "dict", v |-> EmptyDict]
                    /\ in.limit.kind = "absent" => ResultOf(c).metadata.limit = 10
                    /\ in.skip.kind = "absent" => ResultOf(c).metadata.skip = 0
                    /\ in = EmptyInputs =>
                          ResultOf(c).data = Some(search_documents(EmptyDict, 10, 0))
                /\ (in = EmptyInputs /\ ExecuteEnded(c) /\ ~StoreFailed(c)) =>
                      ResultOf(c).success

C15_Witness ==
    \E c \in Calls :
        /\ IsSearchCall(c) /\ calls[c].pc = "returned"
        /\ InputsOf(c) = EmptyInputs
        /\ Len(collection) = 25
        /\ ResultOf(c).success
        /\ ResultOf(c).metadata.returned_count = 10
        /\ ResultOf(c).metadata.total_count = 25
        /\ DOMAIN ResultOf(c).data[1][1] = {"_id", "a", "b"}


(******************************** C17 **************************************)
\* C17: within one execution of the search tool the paginated query is
\* called at most once, the count at most once and only after the query
\* returned successfully; a successful search made exactly the two calls,
\* query then count; a failed query ends the execution with a failure
\* result, with no count and no second query.
C17_StoreCallOrder ==
    \A c \in Calls :
        LET log == calls[c].store_calls
        IN  /\ Len(log) <= 2
            /\ Len(log) >= 1 => log[1].op = "query"
            /\ Len(log) = 2 => (log[1].outcome = "ok" /\ log[2].op = "count")
            /\ calls[c].pc \in {"project", "count"} =>
                  (Len(log) = 1 /\ log[1].outcome = "ok")
            /\ (IsSearchCall(c) /\ ExecuteEnded(c)) =>
                /\ ResultOf(c).success =>
                      (Len(log) = 2 /\ log[2].outcome \in {"ok", "PyMongoError"})
                /\ (Len(log) >= 1 /\ log[1].outcome # "ok") =>
                      (Len(log) = 1 /\ ~ResultOf(c).success)

C17_Witness ==
    \E c \in Calls :
        /\ IsSearchCall(c) /\ calls[c].pc = "returned"
        /\ calls[c].store_calls = <<[op |-> "query", outcome |-> "PyMongoError"]>>
        /\ ~ResultOf(c).success


(******************************** C19 **************************************)
OtherKeys(reg, name) == SelectSeq(Keys(reg), LAMBDA n : n # name)
ToolPool == CustomTools \cup {MongoDBSearchTool}

\* what register_tool(t) does to a registry
RegisteredAt(before, after, t) ==
    /\ get_tool(after, t.name) = Some(t)
    /\ \A n \in ToolNames \ {t.name} : get_tool(after, n) = get_tool(before, n)
    /\ OtherKeys(after, t.name) = OtherKeys(before, t.name)
    /\ Len(after) = Len(OtherKeys(before, t.name)) + 1

\* C19: the registry changes only through register_tool and only at the
\* registered name: register_tool(t) makes get_tool(t.name) return t (the
\* last registration wins, registering twice equals registering once) and
\* leaves every other entry alone; the steps of execute_tool, get_tool and
\* get_available_tools never change the mapping.
C19_RegistryFrame ==
    /\ [](\A t \in ToolPool :
            /\ RegisteredAt(tools, register_tool(tools, t), t)
            /\ register_tool(register_tool(tools, t), t) = register_tool(tools, t))
    /\ [][/\ calls' # calls => tools' = tools
          /\ tools' # tools => \E t \in ToolPool : RegisteredAt(tools, tools', t)]_vars

C19_Witness ==
    /\ Keys(tools) = <<"mongodb_search", "echo">>
    /\ tools[2].tool = EchoRaisingTool
    /\ \E c \in Calls : calls[c].pc = "respond" /\ calls[c].tool = Some(EchoRaisingTool)

(******************************** C20 **************************************)
\* C20: an empty fields list is treated as an absent one: the records come
\* back with all their keys; with or without projection the data has as
\* many records as the store's page, in the same order.
C20_EmptyFieldsUnprojected ==
    \A c \in Calls :
        (IsSearchCall(c) /\ ExecuteEnded(c) /\ ResultOf(c).success) =>
            LET data == ResultOf(c).data[1]
                page == StorePage(c)
            IN  /\ Len(data) = Len(page)
                /\ \A i \in 1..Len(data) : data[i]._id = page[i]._id
                /\ ~HasFieldList(c) => data = page
                /\ InputsOf(c).fields = [kind |-> "list", v |-> <<>>] =>
                      \A i \in 1..Len(data) : DOMAIN data[i] = DOMAIN page[i]

C20_Witness ==
    \E c \in Calls :
        /\ IsSearchCall(c) /\ calls[c].pc = "returned" /\ ResultOf(c).success
        /\ InputsOf(c).fields = [kind |-> "list", v |-> <<>>]
        /\ Len(ResultOf(c).data[1]) = 3
        /\ ResultOf(c).data[1][2] = [_id |-> "2", a |-> 0, b |-> 2]


(******************************** C12 **************************************)
\* C12: searches are read-only and deterministic: two executions of the same
\* inputs, with the store answering alike, return the same data and the same
\* metadata, whatever ran in between; no step of a call changes the store
\* contents or the registry.
C12_SearchReadOnlyDeterministic ==
    /\ [](\A c1, c2 \in DOMAIN calls :
             (/\ IsSearchCall(c1) /\ IsSearchCall(c2)
              /\ ExecuteEnded(c1) /\ ExecuteEnded(c2)
              /\ InputsOf(c1) = InputsOf(c2)
              /\ calls[c1].store_calls = calls[c2].store_calls) =>
                 /\ ResultOf(c1).data = ResultOf(c2).data
                 /\ ResultOf(c1).metadata = ResultOf(c2).metadata
                 /\ ResultOf(c1).success = ResultOf(c2).success)
    /\ [][/\ collection' = collection
          /\ calls' # calls => tools' = tools]_vars

C12_Witness ==
    /\ calls[1].pc = "responded" /\ calls[2].pc = "returned"
    /\ IsSearchCall(1) /\ IsSearchCall(2)
    /\ InputsOf(1) = InputsOf(2) /\ InputsOf(1).fields.kind = "list"
    /\ ResultOf(1).success /\ ResultOf(2).success
    /\ ~StoreFailed(1) /\ ~StoreFailed(2)
    /\ Len(ResultOf(2).data[1]) = 1
    /\ ResultOf(1) = ResultOf(2)

(******************************** C18 **************************************)
WaitingOnStore(c) == calls[c].pc \in {"query", "count"}

\* C18: /execute calls can be in flight together: an execute that waits on
\* store I/O does not block another call, so a call that has been received
\* can go on to its dispatch while another waits for the store.
C18_StoreWaitDoesNotBlock ==
    \A c1, c2 \in DOMAIN calls :
        (c1 # c2 /\ WaitingOnStore(c1) /\ calls[c2].pc = "handler") =>
            ENABLED Dispatch(c2)


(******************************** C13 **************************************)
\* the $regex condition of the text search for given terms
TextCond(terms) == ("$regex" :> terms) @@ ("$options" :> <<"i">>)

\* C13: for every prompt, process_prompt issues one mongodb_search request
\* whose filter is the $or of the case-insensitive $regex of the lower-cased,
\* trimmed prompt on content, title and description, with limit 20 and skip
\* 0, and the result it returns has metadata.original_prompt = the prompt as
\* given and metadata.query_type = "text_search".
C13_PromptSearchResult ==
    (client.pc = "done" /\ client.op = "process_prompt") =>
        LET req   == client.request[1]
            terms == Strip(Lower(client.prompt))
        IN  /\ req.tool_name = "mongodb_search"
            /\ req.inputs.query.v =
                  ("$or" :> <<"content" :> TextCond(terms), "title" :> TextCond(terms),
                              "description" :> TextCond(terms)>>)
            /\ client.prompt = <<" ", "p", "Y", " ">> => terms = <<"p", "y">>
            /\ req.inputs.limit = [kind |-> "int", v |-> 20]
            /\ req.inputs.skip = [kind |-> "int", v |-> 0]
            /\ client.result # None
            /\ "original_prompt" \in DOMAIN client.result[1].metadata
            /\ client.result[1].metadata["original_prompt"] = client.prompt
            /\ "query_type" \in DOMAIN client.result[1].metadata
            /\ client.result[1].metadata["query_type"] = "text_search"

(******************************** C14 **************************************)
TransportFailed == client.error # None \/ (client.http # None /\ client.http[1].status >= 400)
TransportErrorText ==
    IF client.error # None THEN <<client.error[1]>>
    ELSE <<"HTTPError ", ToString(client.http[1].status)>>

\* C14: when the HTTP call to /execute cannot be completed (network error
\* or error status) the client does not raise: search_documents returns
\* {success: false, error: <transport error text>, data: [], metadata: {}}
\* and execute_custom_tool returns {success: false, error: <text>, data:
\* null, metadata: {tool_name}}.
C14_TransportFailureEnvelope ==
    (client.pc = "done" /\ TransportFailed) =>
        /\ client.op = "search_documents" =>
              client.result = Some([success  |-> FALSE,
                                    error    |-> Some(TransportErrorText),
                                    data     |-> Some(<<>>),
                                    metadata |-> EmptyDict])
        /\ client.op = "execute_custom_tool" =>
              client.result = Some([success  |-> FALSE,
                                    error    |-> Some(TransportErrorText),
                                    data     |-> None,
                                    metadata |-> [tool_name |-> client.tool_name]])

C14_Witness ==
    /\ client.pc = "done" /\ client.op = "execute_custom_tool"
    /\ client.http # None /\ client.http[1].status = 422
    /\ client.result[1].error = Some(<<"HTTPError ", "422">>)
    /\ client.result[1].metadata = [tool_name |-> "echo"]

(******************************** C16 **************************************)
\* C16: GET /tools/{name} answers 200 with the descriptor {name,
\* description, schema} of the tool registered under the name when there is
\* one, and 404 when there is none.
C16_ToolInfoStatus ==
    [][(client.pc = "send" /\ client.op = "get_tool_info"
        /\ client'.pc = "return" /\ client'.http # None) =>
          LET n == client.tool_name
              h == client'.http[1]
          IN  /\ n \in RegisteredNames =>
                  /\ h.status = 200
                  /\ DOMAIN h.body = {"name", "description", "schema"}
                  /\ h.body.name = n
                  /\ \E i \in 1..Len(tools) :
                        /\ tools[i].key = n
                        /\ h.body.description = tools[i].tool.description
                        /\ h.body.schema = get_schema(tools[i].tool)
              /\ n \notin RegisteredNames => h.status = 404]_vars

C16_Witness ==
    /\ client.pc = "return" /\ client.op = "get_tool_info"
    /\ client.tool_name = "echo"
    /\ client.http # None /\ client.http[1].status = 200
    /\ client.http[1].body.description = "echo v2"

====
